---- MODULE Spec2Model ----
(***************************************************************************)
(* Model of the bitly link-annotation pipeline of go-jira (bitly.go):      *)
(* Cli.ExtendLinksWithBitly parses the issue keys, getBitlyLinks fans out  *)
(* one goroutine per (link, issue) pair, collects the BitlyLink results    *)
(* from a buffered channel into the table `out`, and                       *)
(* extendLinksWithBitlyUrls writes the table back onto the issues.         *)
(*                                                                         *)
(* Strings are TLA+ strings (Len, SubSeq and \o act on their characters).  *)
(* Go indices are 0-based: a BitlyLink's index i addresses out[i + 1].     *)
(***************************************************************************)
EXTENDS Integers, Sequences, FiniteSets, TLC

\* ------------------------------------------------------------------ bounds
MaxIssues == 3
MaxSpecs == 3
\* most goroutines one call starts (issues times specs)
MaxPairs == 4
MaxAnomalies == 1
\* most .jira.d/config.yml paths FindParentPaths hands to loadConfigs
MaxParents == 2
\* most positional arguments on the command line
MaxArgs == 3

\* ------------------------------------------------------------ input space
AllKeys == <<"AB-2", "AB-1", "AB-3", "AB-4">>

Placeholder == "${issueName}"

jiraLink == [name |-> "jira", url |-> "",
             urlTemplate |-> "https://jira.cfops.it/browse/${issueName}"]
stashLink == [name |-> "stash", url |-> "",
              urlTemplate |-> "https://stash.cfops.it/projects/APPS/repos/app/browse?at=refs%2Fheads%2F${issueName}"]
\* link specs getBitlyLinks accepts but ExtendLinksWithBitly never builds
wikiLink == [name |-> "wiki", url |-> "",
             urlTemplate |-> "https://wiki.cfops.it/${issueName}"]
jiraAltLink == [name |-> "jira", url |-> "",
                urlTemplate |-> "https://jira.cfops.it/issues/${issueName}"]

Min(a, b) == IF a < b THEN a ELSE b

Prefixes(s, n) == {SubSeq(s, 1, k) : k \in 0..Min(n, Len(s))}

IssueKeyLists == Prefixes(AllKeys, MaxIssues)

LinkLists ==
    Prefixes(<<jiraLink, stashLink, wikiLink, jiraAltLink>>, MaxSpecs)
    \cup Prefixes(<<stashLink, jiraLink, jiraAltLink, wikiLink>>, MaxSpecs)
    \cup Prefixes(<<jiraLink, jiraAltLink, stashLink, wikiLink>>, MaxSpecs)
    \cup Prefixes(<<wikiLink, jiraLink, stashLink, jiraAltLink>>, MaxSpecs)

\* the caller's data: map with an "issues" list of maps, each with a "key"
MkIssue(k) == [key |-> k, summary |-> "summary of " \o k]
MkData(keys) == [issues |-> [n \in 1..Len(keys) |-> MkIssue(keys[n])]]

\* ----------------------------------------------------------- the service
\* bitly.Link: only its URL is touched by this package
ZeroLink == [URL |-> ""]
HttpScheme == "http://"

\* the ways one call b.Links.Shorten(url) can end ("hang": it never returns)
Kinds == {"ok", "fail", "empty", "short", "seven", "hang"}

Shorten(url, kind) ==
    CASE kind = "ok"    -> [link |-> [URL |-> HttpScheme \o "bit.ly/" \o url], err |-> "nil"]
      [] kind = "fail"  -> [link |-> ZeroLink, err |-> "error"]
      [] kind = "empty" -> [link |-> ZeroLink, err |-> "nil"]
      [] kind = "short" -> [link |-> [URL |-> "bit.ly"], err |-> "nil"]
      [] kind = "seven" -> [link |-> [URL |-> HttpScheme], err |-> "nil"]

\* --------------------------------------------------------- pure functions
\* the position of the first occurrence of old in s, 0 if there is none
Index(s, old) ==
    LET at == {p \in 1..(Len(s) - Len(old) + 1) : SubSeq(s, p, p + Len(old) - 1) = old}
    IN IF at = {} THEN 0 ELSE CHOOSE p \in at : \A q \in at : p <= q

\* strings.Replace(s, old, new, -1) for a non-empty old: every occurrence,
\* left to right, without overlap
RECURSIVE Replace(_, _, _)
Replace(s, old, new) ==
    LET p == Index(s, old)
    IN IF p = 0 THEN s
       ELSE SubSeq(s, 1, p - 1) \o new
            \o Replace(SubSeq(s, p + Len(old), Len(s)), old, new)

\* (mutant) the bounds check is off by one
CanSlice7OffByOne(s) == Len(s) >= 6

\* s[7:], defined when CanSlice7(s)
CanSlice7(s) == Len(s) >= 7
Slice7(s) == SubSeq(s, 8, Len(s))

ZeroOutputLinkMap == [JiraLink |-> ZeroLink, StashLink |-> ZeroLink]

getBitlyLink(link, kind) ==
    [bitlyLink |-> [index |-> 0, name |-> link.name, link |-> Shorten(link.url, kind).link],
     err |-> Shorten(link.url, kind).err]

parseJiraLinks(d) == [n \in 1..Len(d.issues) |-> d.issues[n].key]

\* (mutant) every issue gets the table's first slot
extendWithFirstSlot(d, bitlyLinkList) ==
    [d EXCEPT !.issues =
        [n \in 1..Len(d.issues) |->
            [f \in (DOMAIN d.issues[n]) \cup {"bitlyLink"} |->
                IF f = "bitlyLink" THEN bitlyLinkList[1] ELSE d.issues[n][f]]]]

\* (mutant) every issue is replaced by a fresh map holding its key and its links
extendDroppingFields(d, bitlyLinkList) ==
    [d EXCEPT !.issues =
        [n \in 1..Len(d.issues) |->
            [key |-> d.issues[n].key, bitlyLink |-> bitlyLinkList[n]]]]

extendLinksWithBitlyUrls(d, bitlyLinkList) ==
    [d EXCEPT !.issues =
        [n \in 1..Len(d.issues) |->
            [f \in (DOMAIN d.issues[n]) \cup {"bitlyLink"} |->
                IF f = "bitlyLink" THEN bitlyLinkList[n] ELSE d.issues[n][f]]]]

\* ------------------------------------------------------------------ state
VARIABLES
    data,           \* the caller's issue data (mutated in place by the merge)
    linkList,       \* linksToExtend / getBitlyLinks' linkList
    jiraIssueList,  \* the keys parseJiraLinks extracted
    pc,             \* position of the calling goroutine
    spawned,        \* number of go statements executed by the fan-out loops
    warg,           \* per goroutine: the arguments (i, name, link) it was started with
    wpc,            \* per goroutine: "run", "send", "hung" or "done"
    wmsg,           \* per goroutine: its local bitlyLink
    wkind,          \* per goroutine: how its Shorten call ended ("none" before)
    channel,        \* the buffered channel's contents
    out,            \* the table being filled
    i,              \* the aggregation loop's counter
    err,            \* the error ExtendLinksWithBitly returns
    panicMsg,       \* the panic that ended the process ("" if none)
    written         \* per slot and field: how often the aggregation loop assigned it

\* state of main's loadConfigs (main.go)
VARIABLES
    mpc,            \* position of main
    opts,           \* the options map
    optsCli,        \* the options the command line had set when loadConfigs was called
    files,          \* per path: the config file found there
    paths,          \* the path list loadConfigs walks
    pathIdx,        \* the loop counter of loadConfigs (0-based)
    env             \* the process environment

\* state of main's command resolution (main.go)
VARIABLES
    args,           \* the positional arguments being passed on
    command,        \* the resolved command
    argv            \* the positional arguments as parsed (op.Args)

bitlyVars == <<data, linkList, jiraIssueList, pc, spawned, warg, wpc, wmsg, wkind,
               channel, out, i, err, panicMsg, written>>
mainVars == <<mpc, opts, optsCli, files, paths, pathIdx, env>>
cmdVars == <<args, command, argv>>
vars == <<bitlyVars, mainVars, cmdVars>>

numLinks == Len(linkList)
numKeys == Len(jiraIssueList)
ChanCap == numKeys
\* (mutant) the loop counts the issues only
LoopBoundKeysOnly == numKeys
LoopBound == numKeys * numLinks

Workers == 1..Len(wpc)

ZeroBitlyLink == [index |-> 0, name |-> "", link |-> ZeroLink]

Anomalies == Cardinality({w \in Workers : wkind[w] \notin {"none", "ok"}})

Init ==
    /\ \E keys \in IssueKeyLists : data = MkData(keys)
    /\ linkList \in LinkLists
    /\ Len(data.issues) * Len(linkList) <= MaxPairs
    /\ jiraIssueList = <<>>
    /\ pc = "start"
    /\ spawned = 0
    /\ warg = <<>>
    /\ wpc = <<>>
    /\ wmsg = <<>>
    /\ wkind = <<>>
    /\ channel = <<>>
    /\ out = <<>>
    /\ i = 0
    /\ err = "unset"
    /\ panicMsg = ""
    /\ written = <<>>
    /\ mpc = "off"
    /\ opts = <<>>
    /\ optsCli = <<>>
    /\ files = <<>>
    /\ paths = <<>>
    /\ pathIdx = 0
    /\ env = <<>>
    /\ args = <<>>
    /\ command = ""
    /\ argv = <<>>

\* ------------------------------------------------- the calling goroutine
\* ExtendLinksWithBitly up to the call, and getBitlyLinks' allocations
Begin ==
    /\ UNCHANGED <<mainVars, cmdVars>>
    /\ pc = "start"
    /\ jiraIssueList' = parseJiraLinks(data)
    /\ out' = [n \in 1..Len(data.issues) |-> ZeroOutputLinkMap]
    /\ channel' = <<>>
    /\ spawned' = 0
    /\ pc' = "dispatch"
    /\ written' = [n \in 1..Len(data.issues) |-> [jira |-> 0, stash |-> 0]]
    /\ UNCHANGED <<data, linkList, warg, wpc, wmsg, wkind, i, err, panicMsg>>

\* the arguments of the s-th go statement (s counted from 0): the loops run
\* over the links (outer) and the issues (inner)
SpawnArgs(s) ==
    [i |-> s % numKeys,
     name |-> jiraIssueList[(s % numKeys) + 1],
     link |-> linkList[(s \div numKeys) + 1]]

\* (mutant) the call is made without `go`: the loop goes on only when the
\* function has returned
GoSynchronous ==
    /\ UNCHANGED <<mainVars, cmdVars>>
    /\ pc = "dispatch"
    /\ spawned < numLinks * numKeys
    /\ \A w \in 1..Len(wpc) : wpc[w] = "done"
    /\ warg' = Append(warg, SpawnArgs(spawned))
    /\ wpc' = Append(wpc, "run")
    /\ wmsg' = Append(wmsg, ZeroBitlyLink)
    /\ wkind' = Append(wkind, "none")
    /\ spawned' = spawned + 1
    /\ UNCHANGED <<data, linkList, jiraIssueList, pc, channel, out, i, err, panicMsg, written>>

Go ==
    /\ UNCHANGED <<mainVars, cmdVars>>
    /\ pc = "dispatch"
    /\ spawned < numLinks * numKeys
    /\ warg' = Append(warg, SpawnArgs(spawned))
    /\ wpc' = Append(wpc, "run")
    /\ wmsg' = Append(wmsg, ZeroBitlyLink)
    /\ wkind' = Append(wkind, "none")
    /\ spawned' = spawned + 1
    /\ UNCHANGED <<data, linkList, jiraIssueList, pc, channel, out, i, err, panicMsg, written>>

EndDispatch ==
    /\ UNCHANGED <<mainVars, cmdVars>>
    /\ pc = "dispatch"
    /\ spawned = numLinks * numKeys
    /\ pc' = "aggregate"
    /\ i' = 0
    /\ UNCHANGED <<data, linkList, jiraIssueList, spawned, warg, wpc, wmsg, wkind,
                   channel, out, err, panicMsg, written>>

\* ---------------------------------------------------------- the goroutines
\* (mutant) the closure reads the loop variable issueName instead of its argument
WorkerNameCaptured(w) == jiraIssueList[((spawned - 1) % numKeys) + 1]

\* the issue name the goroutine substitutes into the template
WorkerName(w) == warg[w].name

\* (mutant) the goroutine leaves the index of its result at the zero value
WorkerIndexUnset(w) == 0

\* the index the goroutine stamps on its result
WorkerIndex(w) == warg[w].i

WorkerUrl(w) == Replace(warg[w].link.urlTemplate, Placeholder, WorkerName(w))

\* the goroutine's bitlyLink after a Shorten call that ended as kind
WorkerResult(w, kind) ==
    [getBitlyLink([warg[w].link EXCEPT !.url = WorkerUrl(w)], kind).bitlyLink
        EXCEPT !.index = WorkerIndex(w)]

\* (mutant) the goroutine returns without sending when the call failed
WorkerShortenDropsFailure(w, kind) ==
    /\ UNCHANGED <<mainVars, cmdVars>>
    /\ pc \in {"dispatch", "aggregate"}
    /\ wpc[w] = "run"
    /\ kind # "ok" => Anomalies < MaxAnomalies
    /\ wkind' = [wkind EXCEPT ![w] = kind]
    /\ IF kind = "hang"
       THEN /\ wpc' = [wpc EXCEPT ![w] = "hung"]
            /\ UNCHANGED wmsg
       ELSE /\ wpc' = [wpc EXCEPT ![w] = IF kind = "fail" THEN "done" ELSE "send"]
            /\ wmsg' = [wmsg EXCEPT ![w] = WorkerResult(w, kind)]
    /\ UNCHANGED <<data, linkList, jiraIssueList, pc, spawned, warg, channel, out,
                   i, err, panicMsg, written>>

WorkerShorten(w, kind) ==
    /\ UNCHANGED <<mainVars, cmdVars>>
    /\ pc \in {"dispatch", "aggregate"}
    /\ wpc[w] = "run"
    /\ kind # "ok" => Anomalies < MaxAnomalies
    /\ wkind' = [wkind EXCEPT ![w] = kind]
    /\ IF kind = "hang"
       THEN /\ wpc' = [wpc EXCEPT ![w] = "hung"]
            /\ UNCHANGED wmsg
       ELSE /\ wpc' = [wpc EXCEPT ![w] = "send"]
            /\ wmsg' = [wmsg EXCEPT ![w] = WorkerResult(w, kind)]
    /\ UNCHANGED <<data, linkList, jiraIssueList, pc, spawned, warg, channel, out,
                   i, err, panicMsg, written>>

\* ------------------------------------------------------- the aggregation
KnownName(name) == name \in {"jira", "stash"}

\* whether storing bitlyLink panics, and with what
RoutePanic(bitlyLink) ==
    IF ~KnownName(bitlyLink.name) THEN "bad bitlyLink name"
    ELSE IF ~CanSlice7(bitlyLink.link.URL) THEN "slice bounds out of range"
    ELSE ""

\* (mutant) the two branches store into each other's field
RouteSwapped(current, bitlyLink) ==
    IF bitlyLink.name = "jira"
    THEN [current EXCEPT !.StashLink = [bitlyLink.link EXCEPT !.URL = Slice7(bitlyLink.link.URL)]]
    ELSE [current EXCEPT !.JiraLink = [bitlyLink.link EXCEPT !.URL = Slice7(bitlyLink.link.URL)]]

\* (mutant) the slot is rebuilt from the zero value instead of read from the table
RouteFresh(current, bitlyLink) ==
    IF bitlyLink.name = "jira"
    THEN [ZeroOutputLinkMap EXCEPT !.JiraLink = [bitlyLink.link EXCEPT !.URL = Slice7(bitlyLink.link.URL)]]
    ELSE [ZeroOutputLinkMap EXCEPT !.StashLink = [bitlyLink.link EXCEPT !.URL = Slice7(bitlyLink.link.URL)]]

\* the slot after storing bitlyLink in it
Route(current, bitlyLink) ==
    IF bitlyLink.name = "jira"
    THEN [current EXCEPT !.JiraLink = [bitlyLink.link EXCEPT !.URL = Slice7(bitlyLink.link.URL)]]
    ELSE [current EXCEPT !.StashLink = [bitlyLink.link EXCEPT !.URL = Slice7(bitlyLink.link.URL)]]

\* (mutant) the slot is picked by the loop counter, not by the result's index
SlotByArrival(bitlyLink) == (i % numKeys) + 1

\* the slot a received bitlyLink is stored in
SlotOf(bitlyLink) == bitlyLink.index + 1

\* (mutant) the goroutine also stores its result in the table itself
WorkerSendWritesTable(w) ==
    /\ UNCHANGED <<mainVars, cmdVars>>
    /\ pc \in {"dispatch", "aggregate"}
    /\ wpc[w] = "send"
    /\ Len(channel) < ChanCap
    /\ channel' = Append(channel, wmsg[w])
    /\ wpc' = [wpc EXCEPT ![w] = "done"]
    /\ out' = IF RoutePanic(wmsg[w]) = ""
              THEN [out EXCEPT ![SlotOf(wmsg[w])] = Route(out[SlotOf(wmsg[w])], wmsg[w])]
              ELSE out
    /\ UNCHANGED <<data, linkList, jiraIssueList, pc, spawned, warg, wmsg, wkind,
                   i, err, panicMsg, written>>

\* the goroutine's send: it blocks while the channel is full
WorkerSend(w) ==
    /\ UNCHANGED <<mainVars, cmdVars>>
    /\ pc \in {"dispatch", "aggregate"}
    /\ wpc[w] = "send"
    /\ Len(channel) < ChanCap
    /\ channel' = Append(channel, wmsg[w])
    /\ wpc' = [wpc EXCEPT ![w] = "done"]
    /\ UNCHANGED <<data, linkList, jiraIssueList, pc, spawned, warg, wmsg, wkind,
                   out, i, err, panicMsg, written>>

Receive ==
    /\ UNCHANGED <<mainVars, cmdVars>>
    /\ pc = "aggregate"
    /\ i < LoopBound
    /\ channel # <<>>
    /\ LET bitlyLink == Head(channel) IN
         /\ channel' = Tail(channel)
         /\ IF RoutePanic(bitlyLink) # ""
            THEN /\ pc' = "panicked"
                 /\ panicMsg' = RoutePanic(bitlyLink)
                 /\ UNCHANGED <<out, i, written>>
            ELSE /\ out' = [out EXCEPT ![SlotOf(bitlyLink)] = Route(out[SlotOf(bitlyLink)], bitlyLink)]
                 /\ written' = [written EXCEPT ![SlotOf(bitlyLink)][bitlyLink.name] = @ + 1]
                 /\ i' = i + 1
                 /\ UNCHANGED <<pc, panicMsg>>
    /\ UNCHANGED <<data, linkList, jiraIssueList, spawned, warg, wpc, wmsg, wkind, err>>

\* getBitlyLinks returns (out, nil)
Return ==
    /\ UNCHANGED <<mainVars, cmdVars>>
    /\ pc = "aggregate"
    /\ i >= LoopBound
    /\ err' = "nil"
    /\ pc' = "merge"
    /\ UNCHANGED <<data, linkList, jiraIssueList, spawned, warg, wpc, wmsg, wkind,
                   channel, out, i, panicMsg, written>>

\* extendLinksWithBitlyUrls, and ExtendLinksWithBitly returns (data, err)
Merge ==
    /\ UNCHANGED <<mainVars, cmdVars>>
    /\ pc = "merge"
    /\ data' = extendLinksWithBitlyUrls(data, out)
    /\ pc' = "done"
    /\ UNCHANGED <<linkList, jiraIssueList, spawned, warg, wpc, wmsg, wkind,
                   channel, out, i, err, panicMsg, written>>

Next ==
    \/ Begin
    \/ Go
    \/ EndDispatch
    \/ \E w \in Workers, kind \in Kinds : WorkerShorten(w, kind)
    \/ \E w \in Workers : WorkerSend(w)
    \/ Receive
    \/ Return
    \/ Merge

Spec == Init /\ [][Next]_vars

TypeOK ==
    /\ pc \in {"start", "dispatch", "aggregate", "merge", "done", "panicked"}
    /\ Len(channel) <= ChanCap
    /\ i <= LoopBound

\* ------------------------------------------------------ claims: helpers
N == Len(data.issues)
M == Len(linkList)
Keys == parseJiraLinks(data)

DistinctNames == \A a, b \in 1..M : a # b => linkList[a].name # linkList[b].name
KnownNames == \A a \in 1..M : KnownName(linkList[a].name)

\* the "bitlyLink" field of issue n, once the merge has attached it
Annotated(n) == "bitlyLink" \in DOMAIN data.issues[n]
FieldOf(rec, name) == IF name = "jira" THEN rec.JiraLink ELSE rec.StashLink

\* what the table stores for a pair whose call ended as kind
StoredLink(key, link, kind) ==
    [URL |-> Slice7(Shorten(Replace(link.urlTemplate, Placeholder, key), kind).link.URL)]

\* the goroutine started for link position a and issue n
WorkerOf(a, n) == CHOOSE w \in Workers : warg[w].link = linkList[a] /\ warg[w].i = n - 1

Ended == pc \in {"done", "panicked"}
AllSpawned == Len(wpc) = N * M

\* C1: when annotate has returned, no field of issue n's link record holds a
\* value computed from the identifier of a different issue m.
C1_NoCrossContamination ==
    pc = "done" =>
        \A n, m \in 1..N : \A a \in 1..M : \A f \in {"jira", "stash"} :
            n # m =>
                /\ FieldOf(data.issues[n].bitlyLink, f) # StoredLink(Keys[m], linkList[a], "ok")
                /\ FieldOf(out[n], f) # StoredLink(Keys[m], linkList[a], "ok")

C1_Witness ==
    /\ pc = "done"
    /\ N >= 2
    /\ M >= 2
    /\ \A n \in 1..N : \A f \in {"jira", "stash"} :
         \E a \in 1..M : FieldOf(data.issues[n].bitlyLink, f) = StoredLink(Keys[n], linkList[a], "ok")

\* C2: every call of annotate ends by returning exactly N records in the input
\* order, each with exactly M link fields populated (one per spec name,
\* shortened or marked failed).  Stated for distinct, recognised spec names and
\* a service that answers every call with a shortened URL or with an error.
C2_ReturnsEveryField ==
    (/\ Ended
     /\ DistinctNames
     /\ KnownNames
     /\ \A w \in Workers : wkind[w] \in {"none", "ok", "fail"})
    => /\ pc = "done"
       /\ Len(data.issues) = Len(jiraIssueList)
       /\ \A n \in 1..N : /\ data.issues[n].key = jiraIssueList[n]
                          /\ Annotated(n)
                          /\ Cardinality({f \in {"jira", "stash"} :
                                 FieldOf(data.issues[n].bitlyLink, f) # ZeroLink}) = M

\* C3: if the service fails for exactly one pair and succeeds for all others,
\* annotate returns with a nil error, every other pair holds its shortened
\* URL and the failed pair is the one left without.
C3_PartialFailureReturns ==
    (/\ Ended
     /\ DistinctNames
     /\ KnownNames
     /\ AllSpawned
     /\ N * M >= 2
     /\ Cardinality({w \in Workers : wkind[w] = "fail"}) = 1
     /\ \A w \in Workers : wkind[w] \in {"ok", "fail"})
    => /\ pc = "done"
       /\ err = "nil"
       /\ \A a \in 1..M : \A n \in 1..N :
            FieldOf(data.issues[n].bitlyLink, linkList[a].name) =
                IF wkind[WorkerOf(a, n)] = "fail"
                THEN ZeroLink
                ELSE StoredLink(Keys[n], linkList[a], "ok")

\* C4: only the aggregating goroutine writes the table: a step of a worker
\* goroutine leaves the table and the caller's data alone and at most appends
\* the worker's own result to the channel, and the table changes only in the
\* caller's allocation and in the aggregation loop.
C4_OnlyAggregatorWrites ==
    [][/\ (\E w \in Workers : wpc'[w] # wpc[w]) =>
            /\ out' = out
            /\ data' = data
            /\ \/ channel' = channel
               \/ \E w \in Workers : /\ wpc[w] = "send"
                                     /\ wpc'[w] = "done"
                                     /\ channel' = Append(channel, wmsg[w])
       /\ out' # out =>
            /\ wpc' = wpc
            /\ \/ pc = "start"
               \/ pc = "aggregate" /\ i' = i + 1 /\ channel' = Tail(channel)]_vars

\* a table already written to while goroutines are still at work
C4_Witness ==
    /\ pc = "aggregate"
    /\ \E n \in 1..N : out[n] # ZeroOutputLinkMap
    /\ \E w \in Workers : wpc[w] = "run"
    /\ \E w \in Workers : wpc[w] = "send"

\* results taken off the channel so far (a panicking receive took one too)
Received == i + (IF pc = "panicked" THEN 1 ELSE 0)

\* C5: every goroutine whose call has returned, successfully or not, puts
\* exactly one result on the channel: the results in the channel and those
\* already received are exactly the results of the goroutines that finished,
\* and when getBitlyLinks returns every dispatched pair has delivered its one.
C5_ExactlyOneResult ==
    /\ Len(channel) + Received = Cardinality({w \in Workers : wpc[w] = "done"})
    /\ \A k \in 1..Len(channel) :
         \E w \in Workers : wpc[w] = "done" /\ wmsg[w] = channel[k]
    /\ \A w \in Workers : wkind[w] \in {"ok", "fail", "empty", "short", "seven"}
                            => wpc[w] \in {"send", "done"}
    /\ pc \in {"merge", "done"} =>
         /\ AllSpawned
         /\ channel = <<>>
         /\ \A w \in Workers : wpc[w] = "done"

\* a failed call and a successful one have both delivered their result
C5_Witness ==
    /\ \E w \in Workers : wkind[w] = "fail" /\ wpc[w] = "done"
    /\ \E w \in Workers : wkind[w] = "ok" /\ wpc[w] = "done"

\* C6: the merge begins only after exactly N*M results have been received:
\* no issue carries a link record before that, and the loop never receives
\* more.
C6_MergeAfterAllResults ==
    /\ Received <= N * M
    /\ pc \in {"merge", "done"} => i = N * M
    /\ (\E n \in 1..N : Annotated(n)) => i = N * M /\ pc = "done"

C6_Witness ==
    /\ pc = "merge"
    /\ i = N * M
    /\ N >= 2
    /\ M >= 2

\* C7: the result a goroutine sends after a failed call carries the failure:
\* it differs from the result the goroutine sends after a call that succeeded
\* with an empty URL.
C7_FailureCarried ==
    \A w \in Workers :
        wkind[w] = "fail" /\ wpc[w] = "done" => wmsg[w] # WorkerResult(w, "empty")

\* C8: receiving a result whose spec name is not recognised never ends the
\* process: no run is aborted by the panic "bad bitlyLink name".
C8_UnknownNameRecoverable ==
    ~(pc = "panicked" /\ panicMsg = "bad bitlyLink name")

\* C9: when the service never answers the call for one pair, annotate still
\* returns: it is never left waiting on the empty channel, with no step
\* possible, for the result of a call that never returns.
C9_NeverWaitsForever ==
    ~(/\ \E w \in Workers : wpc[w] = "hung"
      /\ pc = "aggregate"
      /\ channel = <<>>
      /\ ~ENABLED Next)

\* the annotated data computed from the inputs and the service's answers alone
ExpectedLink(n, name) ==
    IF \E a \in 1..M : linkList[a].name = name
    THEN LET a == CHOOSE b \in 1..M : linkList[b].name = name
         IN StoredLink(Keys[n], linkList[a], wkind[WorkerOf(a, n)])
    ELSE ZeroLink

ExpectedData ==
    [issues |-> [n \in 1..N |->
        [key |-> Keys[n],
         summary |-> MkIssue(Keys[n]).summary,
         bitlyLink |-> [JiraLink |-> ExpectedLink(n, "jira"),
                        StashLink |-> ExpectedLink(n, "stash")]]]]

\* C10: with a deterministic service (each long URL has one answer) and distinct
\* spec names, the annotated output is a function of the issues, the specs and
\* the service's answers, whatever order the goroutines completed in; and
\* annotating the output again reads the same keys and attaches the same records.
C10_SameOutputEveryRun ==
    (pc = "done" /\ DistinctNames) =>
        /\ data = ExpectedData
        /\ parseJiraLinks(data) = jiraIssueList
        /\ extendLinksWithBitlyUrls(data, out) = data

C10_Witness ==
    /\ pc = "done"
    /\ DistinctNames
    /\ N >= 2
    /\ M >= 2
    /\ \A w \in Workers : wkind[w] = "ok"

\* the link b.Links.Shorten returned for issue n and the spec at position a
ServiceLink(a, n) ==
    Shorten(Replace(linkList[a].urlTemplate, Placeholder, Keys[n]),
            wkind[WorkerOf(a, n)]).link

\* C11 (as claimed): after annotate returns, the field named after spec s of
\* issue n's record holds the shortened URL the service returned for the long
\* URL built from s's template and n's key.
C11_HoldsServiceUrl ==
    (pc = "done" /\ DistinctNames) =>
        \A a \in 1..M : \A n \in 1..N :
            FieldOf(data.issues[n].bitlyLink, linkList[a].name) = ServiceLink(a, n)

\* C11 (amended): with distinct spec names, that field holds the URL the
\* service returned without its first seven characters.
C11_HoldsStrippedUrl ==
    (pc = "done" /\ DistinctNames) =>
        \A a \in 1..M : \A n \in 1..N :
            /\ Len(ServiceLink(a, n).URL) >= 7
            /\ FieldOf(data.issues[n].bitlyLink, linkList[a].name).URL
                 = SubSeq(ServiceLink(a, n).URL, 8, Len(ServiceLink(a, n).URL))

C11_Witness ==
    /\ pc = "done"
    /\ DistinctNames
    /\ N >= 2
    /\ M >= 2
    /\ \A a \in 1..M : \A n \in 1..N :
         /\ wkind[WorkerOf(a, n)] = "ok"
         /\ FieldOf(data.issues[n].bitlyLink, linkList[a].name) # ZeroLink

\* C12: the merge attaches slot n of the table to issue n for every n, and
\* from its allocation on the table is as long as the issue collection.
C12_SlotToIssue ==
    /\ pc # "start" => Len(out) = Len(data.issues)
    /\ pc = "done" => \A n \in 1..N : data.issues[n].bitlyLink = out[n]

C12_Witness ==
    /\ pc = "done"
    /\ N >= 2
    /\ out[1] # out[2]
    /\ data.issues[2].bitlyLink = out[2]

\* goroutines started and not yet finished
InFlight == Cardinality({w \in Workers : wpc[w] # "done"})

\* C13: the number of goroutines in flight stays within a concurrency limit
\* also when there are more pairs than the limit allows: with two or more
\* pairs, the pairs are never all in flight at once.
C13_InFlightCapped ==
    N * M >= 2 => InFlight < N * M

\* C14: with distinct spec names, every field of every slot of the table is
\* assigned at most once during one call.
C14_WrittenAtMostOnce ==
    DistinctNames =>
        \A n \in 1..Len(written) : \A f \in {"jira", "stash"} : written[n][f] <= 1

C14_Witness ==
    /\ pc = "done"
    /\ DistinctNames
    /\ N >= 2
    /\ M >= 2
    /\ \A n \in 1..N : \A f \in {"jira", "stash"} : written[n][f] = 1

\* C15: receiving one result with index x and name s changes at most field s
\* of slot x + 1: the other slots, the other field of that slot and the number
\* of slots (numKeys) stay as they were.
C15_OnlyOneFieldChanges ==
    [][(pc = "aggregate" /\ channel # <<>> /\ channel' = Tail(channel)) =>
        /\ Len(out') = Len(out)
        /\ Len(out') = numKeys
        /\ \A n \in 1..Len(out) :
             n # Head(channel).index + 1 => out'[n] = out[n]
        /\ \A f \in {"jira", "stash"} :
             f # Head(channel).name =>
                FieldOf(out'[Head(channel).index + 1], f)
                    = FieldOf(out[Head(channel).index + 1], f)]_vars

\* a slot whose two fields were filled by two receives, next to an untouched slot
C15_Witness ==
    /\ pc = "aggregate"
    /\ \E n, m \in 1..N :
         /\ n # m
         /\ out[n].JiraLink # ZeroLink
         /\ out[n].StashLink # ZeroLink
         /\ written[n].jira = 1
         /\ written[n].stash = 1
         /\ out[m] = ZeroOutputLinkMap

\* C16: all N*M goroutines are started before the first result is received,
\* and starting them never blocks: while pairs remain, the next go statement
\* can be executed whatever the goroutines already started are doing.
C16_AllStartedBeforeReceive ==
    /\ Received >= 1 => AllSpawned
    /\ pc \in {"aggregate", "merge", "done", "panicked"} => AllSpawned
    /\ (pc = "dispatch" /\ spawned < numKeys * numLinks) => ENABLED Go

\* the channel is full and a goroutine waits to send while pairs remain to start
C16_Witness ==
    /\ pc = "dispatch"
    /\ spawned < numKeys * numLinks
    /\ Len(channel) = ChanCap
    /\ \E w \in Workers : wpc[w] = "send"

\* C17: provided every shortening call returns, getBitlyLinks ends only by
\* returning, with every goroutine's send completed: the call never ends in a
\* panic, and once it has returned no goroutine is left before or at its
\* send.  Stated for recognised spec names.
C17_EndsWithAllSent ==
    (/\ KnownNames
     /\ \A w \in Workers : wkind[w] # "hang")
    => /\ pc # "panicked"
       /\ pc = "done" => /\ AllSpawned
                         /\ \A w \in Workers : wpc[w] = "done"

\* C18: receiving a result whose URL has fewer than 7 characters (the empty
\* URL of a failed call included) ends the call with a panic, the slicing one
\* when the name is recognised, and leaves the table and the caller's data as
\* they were; the call gets past the aggregation only if all N*M results had
\* URLs of at least 7 characters.
C18_ShortUrlPanics ==
    [][/\ (/\ pc = "aggregate"
           /\ channel # <<>>
           /\ channel' = Tail(channel)
           /\ Len(Head(channel).link.URL) < 7)
          => /\ pc' = "panicked"
             /\ out' = out
             /\ data' = data
             /\ KnownName(Head(channel).name) => panicMsg' = "slice bounds out of range"
       /\ pc' \in {"merge", "done"}
          => /\ Len(wmsg') = Len(data.issues) * Len(linkList)
             /\ \A w \in 1..Len(wmsg') : Len(wmsg'[w].link.URL) >= 7
       /\ pc' = "panicked" => \A n \in 1..Len(data'.issues) :
                                "bitlyLink" \notin DOMAIN data'.issues[n]]_vars

C18_Witness ==
    /\ pc = "panicked"
    /\ panicMsg = "slice bounds out of range"
    /\ \E w \in Workers : wkind[w] = "fail" /\ wpc[w] = "done"
    /\ \E n \in 1..N : out[n] # ZeroOutputLinkMap

\* C19: the merge changes only the "bitlyLink" field of each issue: the number
\* of issues, their order, their keys and all their other fields stay.
C19_MergeFrame ==
    [][data' # data =>
        /\ DOMAIN data' = DOMAIN data
        /\ Len(data'.issues) = Len(data.issues)
        /\ \A n \in 1..Len(data.issues) :
             /\ DOMAIN data'.issues[n] = (DOMAIN data.issues[n]) \cup {"bitlyLink"}
             /\ \A f \in (DOMAIN data.issues[n]) \ {"bitlyLink"} :
                  data'.issues[n][f] = data.issues[n][f]]_vars

C19_Witness ==
    /\ pc = "done"
    /\ N >= 2
    /\ \A n \in 1..N : /\ Annotated(n)
                       /\ data.issues[n].key = AllKeys[n]
                       /\ data.issues[n].summary = MkIssue(AllKeys[n]).summary

\* ================================================== loadConfigs (main.go)
\* The option keys and the config files are inputs.  A value names the source
\* it comes from: "cli" for the command line, the file's path for a file.
OptKeys == {"project", "endpoint"}
EtcPath == "/etc/go-jira.yml"
\* what FindParentPaths may return: a list of distinct .jira.d/config.yml paths
ParentPaths == <<"/home/u/w/.jira.d/config.yml", "/home/u/.jira.d/config.yml",
                 "/home/.jira.d/config.yml", "/.jira.d/config.yml">>
ParentLists == {SubSeq(ParentPaths, 1, n) : n \in 0..Min(MaxParents, Len(ParentPaths))}

EmptyMap == [k \in {} |-> ""]
\* the maps that set some of the option keys, every value being v
MapsFrom(v) == {[k \in d |-> v] : d \in SUBSET OptKeys}

\* a config file: absent (os.Stat fails), a YAML file, a file that cannot be
\* read, an executable printing YAML, or an executable that fails
FileKinds == {"absent", "yaml", "unreadable", "exec", "execfail"}
\* a file's kind and the keys its YAML sets (none where no YAML is produced)
FileShapes ==
    {[kind |-> k, keys |-> {}] : k \in {"absent", "unreadable", "execfail"}}
    \cup {[kind |-> k, keys |-> d] : k \in {"yaml", "exec"}, d \in SUBSET OptKeys}
FileAt(path, shape) == [kind |-> shape.kind, content |-> [k \in shape.keys |-> path]]

RECURSIVE ToUpper(_)
ToUpper(s) ==
    IF s = "" THEN ""
    ELSE LET c == SubSeq(s, 1, 1)
             u == CASE c = "a" -> "A" [] c = "b" -> "B" [] c = "c" -> "C"
                    [] c = "d" -> "D" [] c = "e" -> "E" [] c = "i" -> "I"
                    [] c = "j" -> "J" [] c = "m" -> "M" [] c = "n" -> "N" [] c = "o" -> "O"
                    [] c = "p" -> "P" [] c = "r" -> "R" [] c = "t" -> "T"
                    [] OTHER -> c
         IN u \o ToUpper(SubSeq(s, 2, Len(s)))

EnvName(k) == "JIRA_" \o ToUpper(k)

\* An option value is written as its text; a value that is not a Go string
\* carries its YAML tag in front ("!!bool true").
IsString(v) == ~(Len(v) >= 2 /\ SubSeq(v, 1, 2) = "!!")

RECURSIVE AfterTag(_)
AfterTag(v) ==
    IF v = "" THEN ""
    ELSE IF SubSeq(v, 1, 1) = " " THEN SubSeq(v, 2, Len(v))
    ELSE AfterTag(SubSeq(v, 2, Len(v)))

\* the type switch of populateEnv: a string as it is, other values printed
FormatValue(v) == IF IsString(v) THEN v ELSE AfterTag(v)

\* populateEnv: one JIRA_<KEY> variable per option, the rest of e kept
populateEnv(o, e) ==
    LET names == {EnvName(k) : k \in DOMAIN o}
    IN [n \in DOMAIN e \cup names |->
           IF n \in names THEN FormatValue(o[CHOOSE k \in DOMAIN o : EnvName(k) = n])
           ELSE e[n]]

\* parseYaml: what the file at path puts into the empty map tmp
parseYaml(path) ==
    IF files[path].kind = "yaml" THEN files[path].content ELSE EmptyMap

\* (mutant) a key the file sets replaces the one already there
MergeConfigOverwrite(o, tmp) ==
    [k \in DOMAIN o \cup DOMAIN tmp |-> IF k \in DOMAIN tmp THEN tmp[k] ELSE o[k]]

\* the loop over tmp: only keys opts does not have yet are set
MergeConfig(o, tmp) ==
    [k \in DOMAIN o \cup DOMAIN tmp |-> IF k \in DOMAIN o THEN o[k] ELSE tmp[k]]

MainInit ==
    /\ data = MkData(<<>>)
    /\ linkList = <<>>
    /\ jiraIssueList = <<>>
    /\ pc = "off"
    /\ spawned = 0
    /\ warg = <<>>
    /\ wpc = <<>>
    /\ wmsg = <<>>
    /\ wkind = <<>>
    /\ channel = <<>>
    /\ out = <<>>
    /\ i = 0
    /\ err = "unset"
    /\ panicMsg = ""
    /\ written = <<>>
    /\ mpc = "start"
    /\ opts \in MapsFrom("cli")
    /\ optsCli = opts
    /\ paths \in ParentLists
    /\ LET used == {paths[n] : n \in 1..Len(paths)} \cup {EtcPath}
       IN \E shape \in [used -> FileShapes] :
              files = [p \in used |-> FileAt(p, shape[p])]
    /\ pathIdx = 0
    /\ env = EmptyMap
    /\ args = <<>>
    /\ command = ""
    /\ argv = <<>>

\* loadConfigs up to its loop
LoadConfigsBegin ==
    /\ UNCHANGED <<bitlyVars, cmdVars>>
    /\ mpc = "start"
    /\ env' = populateEnv(opts, env)
    /\ paths' = Append(paths, EtcPath)
    /\ pathIdx' = 0
    /\ mpc' = "loop"
    /\ UNCHANGED <<opts, optsCli, files>>

\* the file of this iteration (Go index pathIdx)
CurrentFile == paths[pathIdx + 1]
InLoop == mpc = "loop" /\ pathIdx < Len(paths)

\* the rest of an iteration once tmp is filled
Absorb(tmp) ==
    /\ opts' = MergeConfig(opts, tmp)
    /\ env' = populateEnv(opts', env)
    /\ pathIdx' = pathIdx + 1
    /\ UNCHANGED <<mpc, optsCli, files, paths>>

\* os.Stat fails: the iteration does nothing
SkipMissing ==
    /\ UNCHANGED <<bitlyVars, cmdVars>>
    /\ InLoop
    /\ files[CurrentFile].kind = "absent"
    /\ pathIdx' = pathIdx + 1
    /\ UNCHANGED <<mpc, opts, optsCli, files, paths, env>>

\* a file without execute permission goes through parseYaml
LoadYaml ==
    /\ UNCHANGED <<bitlyVars, cmdVars>>
    /\ InLoop
    /\ files[CurrentFile].kind \in {"yaml", "unreadable"}
    /\ Absorb(parseYaml(CurrentFile))

\* an executable file is run and its output parsed
LoadExecutable ==
    /\ UNCHANGED <<bitlyVars, cmdVars>>
    /\ InLoop
    /\ files[CurrentFile].kind = "exec"
    /\ Absorb(files[CurrentFile].content)

\* the executable fails: os.Exit(1)
ExecFails ==
    /\ UNCHANGED <<bitlyVars, cmdVars>>
    /\ InLoop
    /\ files[CurrentFile].kind = "execfail"
    /\ mpc' = "exited"
    /\ UNCHANGED <<opts, optsCli, files, paths, pathIdx, env>>

LoadConfigsReturn ==
    /\ UNCHANGED <<bitlyVars, cmdVars>>
    /\ mpc = "loop"
    /\ pathIdx >= Len(paths)
    /\ mpc' = "done"
    /\ UNCHANGED <<opts, optsCli, files, paths, pathIdx, env>>

MainNext ==
    \/ LoadConfigsBegin
    \/ SkipMissing
    \/ LoadYaml
    \/ LoadExecutable
    \/ ExecFails
    \/ LoadConfigsReturn

MainSpec == MainInit /\ [][MainNext]_vars

\* ------------------------------------------------------- claims: helpers
\* what the file at position n of the path list defines
Defines(n) ==
    IF files[paths[n]].kind \in {"yaml", "exec"} THEN files[paths[n]].content
    ELSE EmptyMap

\* the positions of the path list whose file defines k
Definers(k) == {n \in 1..Len(paths) : k \in DOMAIN Defines(n)}

\* the value of the first source that defines k: the command line, then the
\* files in path-list order
FirstSource(k) ==
    IF k \in DOMAIN optsCli THEN optsCli[k]
    ELSE LET n == CHOOSE m \in Definers(k) : \A l \in Definers(k) : m <= l
         IN Defines(n)[k]

jiraCommands ==
    ("list" :> "list") @@ ("ls" :> "list") @@ ("view" :> "view")
    @@ ("edit" :> "edit") @@ ("create" :> "create") @@ ("subtask" :> "subtask")
    @@ ("dups" :> "dups") @@ ("blocks" :> "blocks")
    @@ ("issuelink" :> "issuelink") @@ ("watch" :> "watch")
    @@ ("trans" :> "transition") @@ ("transition" :> "transition")
    @@ ("ack" :> "acknowledge") @@ ("acknowledge" :> "acknowledge")
    @@ ("close" :> "close") @@ ("resolve" :> "resolve") @@ ("reopen" :> "reopen")
    @@ ("start" :> "start") @@ ("stop" :> "stop") @@ ("todo" :> "todo")
    @@ ("backlog" :> "backlog") @@ ("done" :> "done")
    @@ ("prog" :> "in-progress") @@ ("progress" :> "in-progress")
    @@ ("in-progress" :> "in-progress") @@ ("comment" :> "comment")
    @@ ("label" :> "labels") @@ ("labels" :> "labels")
    @@ ("component" :> "component") @@ ("components" :> "components")
    @@ ("take" :> "take") @@ ("assign" :> "assign") @@ ("give" :> "assign")
    @@ ("fields" :> "fields") @@ ("issuelinktypes" :> "issuelinktypes")
    @@ ("transmeta" :> "transmeta") @@ ("editmeta" :> "editmeta")
    @@ ("issuetypes" :> "issuetypes") @@ ("createmeta" :> "createmeta")
    @@ ("transitions" :> "transitions")
    @@ ("export-templates" :> "export-templates") @@ ("browse" :> "browse")
    @@ ("pullrequest" :> "pullrequest") @@ ("pr" :> "pullrequest")
    @@ ("repo" :> "repository") @@ ("repository" :> "repository")
    @@ ("login" :> "login") @@ ("logout" :> "logout")
    @@ ("req" :> "request") @@ ("request" :> "request") @@ ("vote" :> "vote")
    @@ ("rank" :> "rank") @@ ("worklog" :> "worklog")
    @@ ("addworklog" :> "addworklog") @@ ("unassign" :> "unassign")

IsCommand(s) == s \in DOMAIN jiraCommands

\* the positional arguments tried: an alias, a command, two issue keys and the
\* empty argument
ArgWords == {"ls", "blocks", "AB-1", "AB-2", ""}
RECURSIVE ArgLists(_)
ArgLists(n) ==
    IF n = 0 THEN {<<>>}
    ELSE ArgLists(n - 1) \cup {Append(l, w) : l \in {m \in ArgLists(n - 1) : Len(m) = n - 1},
                                              w \in ArgWords}

\* what a source may give for "command": nothing, a command name, a boolean
CommandMaps == {EmptyMap, [k \in {"command"} |-> "list"], [k \in {"command"} |-> "!!bool true"]}
\* the override option -o command=VALUE stores a string
CliMaps == {EmptyMap, [k \in {"command"} |-> "edit"]}
CommandFiles ==
    {[kind |-> k, content |-> EmptyMap] : k \in {"absent", "unreadable", "execfail"}}
    \cup {[kind |-> k, content |-> c] : k \in {"yaml", "exec"}, c \in CommandMaps}

\* main after option parsing: FindParentPaths finds nothing, /etc/go-jira.yml
\* may set the command
CmdInit ==
    /\ data = MkData(<<>>)
    /\ linkList = <<>>
    /\ jiraIssueList = <<>>
    /\ pc = "off"
    /\ spawned = 0
    /\ warg = <<>>
    /\ wpc = <<>>
    /\ wmsg = <<>>
    /\ wkind = <<>>
    /\ channel = <<>>
    /\ out = <<>>
    /\ i = 0
    /\ err = "unset"
    /\ panicMsg = ""
    /\ written = <<>>
    /\ mpc = "parsed"
    /\ opts \in CliMaps
    /\ optsCli = opts
    /\ paths = <<>>
    /\ files \in [{EtcPath} -> CommandFiles]
    /\ pathIdx = 0
    /\ env = EmptyMap
    /\ argv \in ArgLists(MaxArgs)
    /\ args = argv
    /\ command = ""

\* args without its element at Go index 1: append(args[:1], args[2:]...)
RemoveSecond(a) == SubSeq(a, 1, 1) \o SubSeq(a, 3, Len(a))

\* the scan of the first two arguments for a command name
ScanCommand(a) ==
    IF Len(a) > 0 /\ IsCommand(a[1])
    THEN [command |-> jiraCommands[a[1]], args |-> Tail(a)]
    ELSE IF Len(a) > 1 /\ IsCommand(a[2])
    THEN [command |-> jiraCommands[a[2]], args |-> RemoveSecond(a)]
    ELSE [command |-> "", args |-> a]

\* no command found: the first argument is taken as the command
TakeFirst(r) ==
    IF r.command = "" /\ Len(r.args) > 0
    THEN [command |-> r.args[1], args |-> Tail(r.args)]
    ELSE r

\* main from the scan to the call of loadConfigs
ResolveFromArgs ==
    /\ UNCHANGED bitlyVars
    /\ mpc = "parsed"
    /\ LET r == TakeFirst(ScanCommand(args))
       IN /\ command' = r.command
          /\ args' = r.args
          /\ env' = [n \in DOMAIN env \cup {"JIRA_OPERATION"} |->
                        IF n = "JIRA_OPERATION" THEN r.command ELSE env[n]]
    /\ mpc' = "start"
    /\ UNCHANGED <<opts, optsCli, files, paths, pathIdx, argv>>

\* opts["command"].(string) succeeds
ConfigSetsCommand == "command" \in DOMAIN opts /\ IsString(opts["command"])

\* main after loadConfigs: the configured command, or "view" for a command
\* that is not one
ResolveFromConfig ==
    /\ UNCHANGED bitlyVars
    /\ mpc = "done"
    /\ IF ConfigSetsCommand
       THEN /\ command' = opts["command"]
            /\ UNCHANGED args
       ELSE IF ~IsCommand(command) \/ command = ""
       THEN /\ args' = IF command # "" THEN <<command>> \o args ELSE args
            /\ command' = "view"
       ELSE UNCHANGED <<command, args>>
    /\ mpc' = "resolved"
    /\ UNCHANGED <<opts, optsCli, files, paths, pathIdx, env, argv>>

CmdNext ==
    \/ ResolveFromArgs
    \/ LoadConfigsBegin
    \/ SkipMissing
    \/ LoadYaml
    \/ LoadExecutable
    \/ ExecFails
    \/ LoadConfigsReturn
    \/ ResolveFromConfig

CmdSpec == CmdInit /\ [][CmdNext]_vars

\* C21: with the configuration setting no command, (a) when neither the first
\* nor the second argument is a command name or alias, the command resolves to
\* "view" and the arguments passed on are the original ones, unchanged and in
\* order; (b) when the first argument is not a command but the second is, the
\* command is the second argument's alias and the arguments passed on are the
\* original ones without the second.
C21_ResolvesCommand ==
    (mpc = "resolved" /\ ~ConfigSetsCommand) =>
        /\ ((Len(argv) >= 1 => ~IsCommand(argv[1]))
            /\ (Len(argv) >= 2 => ~IsCommand(argv[2])))
           => (command = "view" /\ args = argv)
        /\ (Len(argv) >= 2 /\ ~IsCommand(argv[1]) /\ IsCommand(argv[2]))
           => /\ command = jiraCommands[argv[2]]
              /\ Len(args) = Len(argv) - 1
              /\ args[1] = argv[1]
              /\ \A n \in 2..Len(args) : args[n] = argv[n + 1]
====
